---- MODULE Spec2Model ----
(***************************************************************************)
(* Model of main.py of soccer-analysis: the two functions with decision    *)
(* logic, player_radar_chart (peer-relative min-max normalisation) and     *)
(* predict_player_performance (per-position feature/scaler/model routing). *)
(* Each function is one synchronous call; an action is one whole call.     *)
(***************************************************************************)
EXTENDS Integers, Sequences, FiniteSets, TLC

VARIABLES
    df,      \* the dataset, loaded once at startup (lines 43-47)
    store,   \* the files under model/ that joblib.load cannot load
    call,    \* the latest call: its arguments, locals, log and result
    seen,    \* an earlier comparison: its arguments and its result
    ncalls,  \* prediction calls counted so far
    nloads   \* per artifact file, joblib.load attempts counted so far

vars == <<df, store, call, seen, ncalls, nloads>>

\* ------------------------------------------------------------------ bounds
\* rows of a dataset in the comparison runs
MaxRows == 3
\* rows of a dataset in the session runs (comparison and prediction mixed)
SessionRows == 2
\* artifact files that fail to load
MaxBroken == 1
\* attributes absent from a prediction record
MaxMissing == 2
\* prediction calls whose loads are counted
MaxCalls == 2

\* ----------------------------------------------------------------- strings
\* A Position value is a sequence of characters, so that str.lower() is a
\* computation on it.
UpperCase == <<"A","B","C","D","E","F","G","H","I","J","K","L","M",
               "N","O","P","Q","R","S","T","U","V","W","X","Y","Z">>
LowerCase == <<"a","b","c","d","e","f","g","h","i","j","k","l","m",
               "n","o","p","q","r","s","t","u","v","w","x","y","z">>

LowerChar(c) ==
    IF \E i \in 1..26 : UpperCase[i] = c
    THEN LowerCase[CHOOSE i \in 1..26 : UpperCase[i] = c]
    ELSE c

\* str.lower()
lower(s) == [i \in 1..Len(s) |-> LowerChar(s[i])]

s_defender   == <<"d","e","f","e","n","d","e","r">>
s_midfielder == <<"m","i","d","f","i","e","l","d","e","r">>
s_striker    == <<"s","t","r","i","k","e","r">>
s_goalkeeper == <<"g","o","a","l","k","e","e","p","e","r">>

\* Position strings as they are stored or typed
s_Defender   == <<"D","e","f","e","n","d","e","r">>
s_Midfielder == <<"M","i","d","f","i","e","l","d","e","r">>
s_STRIKER    == <<"S","T","R","I","K","E","R">>
s_Goalkeeper == <<"G","o","a","l","k","e","e","p","e","r">>
s_Wingback   == <<"W","i","n","g","b","a","c","k">>

\* ------------------------------------------------------------- rationals
\* A float is an exact fraction [num, den] with den > 0 in lowest terms;
\* 0/0 is NaN and x/0 (x # 0) is an infinity, as numpy divides.
Abs(x) == IF x < 0 THEN -x ELSE x

RECURSIVE Gcd(_, _)
Gcd(a, b) == IF b = 0 THEN a ELSE Gcd(b, a % b)

NaN == [num |-> 0, den |-> 0]

Rat(n, d) ==
    IF d = 0 THEN [num |-> IF n > 0 THEN 1 ELSE IF n < 0 THEN -1 ELSE 0, den |-> 0]
    ELSE LET g == Gcd(Abs(n), Abs(d))
             s == IF d < 0 THEN -1 ELSE 1
         IN [num |-> s * (n \div g), den |-> s * (d \div g)]

RatSub(a, b) ==
    IF a.den = 0 \/ b.den = 0 THEN NaN
    ELSE Rat(a.num * b.den - b.num * a.den, a.den * b.den)

RatDiv(a, b) ==
    IF a.den = 0 \/ b.den = 0 THEN NaN
    ELSE Rat(a.num * b.den, a.den * b.num)

IsFinite(r) == r.den > 0

\* ------------------------------------------------------------- the dataset
\* clean_soccer.csv as loaded at startup: an ordered sequence of rows, a row
\* a mapping from column name to value.  Two of the radar chart's numeric
\* columns are kept.
Names == {"A", "B"}
StoredPositions == {s_Defender, s_defender}
Stats == {<<10, 7>>, <<20, 3>>, <<30, 7>>}

Row(n, p, v) ==
    ("Name" :> n) @@ ("Position" :> p) @@
    ("Interception" :> v[1]) @@ ("Key Passes" :> v[2])

Rows == {Row(n, p, v) : n \in Names, p \in StoredPositions, v \in Stats}

Datasets(n) == UNION {[1..k -> Rows] : k \in 0..n}

\* the feature lists a comparison is asked for
FeatureLists ==
    {<<"Interception">>,
     <<"Key Passes", "Interception">>}

\* ------------------------------------------------------------ pandas pieces
\* df[df[col] == value]: the rows that match, in dataset order
Filter(frame, col, value) == SelectSeq(frame, LAMBDA r : r[col] = value)

\* frame.empty
Empty(frame) == Len(frame) = 0

\* frame[features][f] as a list of values
Column(frame, f) == [i \in 1..Len(frame) |-> frame[i][f]]

RECURSIVE SeqSum(_)
SeqSum(s) == IF s = <<>> THEN 0 ELSE s[1] + SeqSum(Tail(s))

RECURSIVE SeqMin(_)
SeqMin(s) ==
    IF Len(s) = 1 THEN s[1]
    ELSE LET m == SeqMin(Tail(s)) IN IF s[1] < m THEN s[1] ELSE m

RECURSIVE SeqMax(_)
SeqMax(s) ==
    IF Len(s) = 1 THEN s[1]
    ELSE LET m == SeqMax(Tail(s)) IN IF s[1] > m THEN s[1] ELSE m

\* frame[features].mean(), .min(), .max(): one value per requested feature
Mean(frame, feats) ==
    [k \in 1..Len(feats) |->
        Rat(SeqSum(Column(frame, feats[k])), Len(frame))]

Min(frame, feats) ==
    [k \in 1..Len(feats) |->
        IF Empty(frame) THEN NaN ELSE Rat(SeqMin(Column(frame, feats[k])), 1)]

Max(frame, feats) ==
    [k \in 1..Len(feats) |->
        IF Empty(frame) THEN NaN ELSE Rat(SeqMax(Column(frame, feats[k])), 1)]

\* player_data[features].iloc[0]
FirstValues(frame, feats) ==
    [k \in 1..Len(feats) |-> Rat(frame[1][feats[k]], 1)]

\* (values - min_values) / (max_values - min_values), element by element
Normalize(values, min_values, max_values) ==
    [k \in 1..Len(values) |->
        RatDiv(RatSub(values[k], min_values[k]),
               RatSub(max_values[k], min_values[k]))]

\* ------------------------------------------------- player_radar_chart
\* line 59
PlayerDataUnfiltered(d, player_name) == d

PlayerDataCached(d, player_name) ==
    IF call.op = "player_radar_chart" /\ ~Empty(call.player_data)
    THEN call.player_data
    ELSE Filter(d, "Name", player_name)

PlayerData(d, player_name) == Filter(d, "Name", player_name)

\* line 64
AllPlayersOfLastMatch(d, player_data) ==
    Filter(d, "Position", player_data[Len(player_data)]["Position"])

AllPlayersAnyCase(d, player_data) ==
    SelectSeq(d, LAMBDA r :
        lower(r["Position"]) = lower(player_data[1]["Position"]))

AllPlayers(d, player_data) ==
    Filter(d, "Position", player_data[1]["Position"])

None == [kind |-> "None"]

\* The whole call: the locals it assigned and what it returned.
RadarChart(d, player_name, feats) ==
    LET player_data == PlayerData(d, player_name) IN
    IF Empty(player_data)
    THEN [op |-> "player_radar_chart",
          player_name |-> player_name, features |-> feats,
          player_data |-> player_data,
          assigned |-> {"player_data"},
          st_error |-> <<player_name>>,
          return |-> None]
    ELSE
      LET all_players == AllPlayers(d, player_data)
          avg_values == Mean(all_players, feats)
          player_values == FirstValues(player_data, feats)
          min_values == Min(all_players, feats)
          max_values == Max(all_players, feats)
          normalized_avg == Normalize(avg_values, min_values, max_values)
          normalized_player == Normalize(player_values, min_values, max_values)
          fig == [avg |-> normalized_avg, player |-> normalized_player,
                  theta |-> feats]
      IN [op |-> "player_radar_chart",
          player_name |-> player_name, features |-> feats,
          player_data |-> player_data,
          all_players |-> all_players,
          avg_values |-> avg_values, player_values |-> player_values,
          min_values |-> min_values, max_values |-> max_values,
          assigned |-> {"player_data", "all_players", "avg_values",
                        "player_values", "min_values", "max_values",
                        "normalized_avg", "normalized_player", "fig"},
          st_error |-> <<>>,
          return |-> [kind |-> "tuple", fig |-> fig,
                      player_data |-> player_data]]

Idle == [op |-> "idle"]
Unseen == [kind |-> "unseen"]

\* ------------------------------------------- predict_player_performance
\* line 107
positions == <<s_defender, s_midfielder, s_striker, s_goalkeeper>>

\* lines 112-113: f'model/{position}_model.joblib', f'model/{position}_scaler.joblib'
model_path(position) ==
    CASE position = s_defender   -> "model/defender_model.joblib"
      [] position = s_midfielder -> "model/midfielder_model.joblib"
      [] position = s_striker    -> "model/striker_model.joblib"
      [] position = s_goalkeeper -> "model/goalkeeper_model.joblib"

scaler_path(position) ==
    CASE position = s_defender   -> "model/defender_scaler.joblib"
      [] position = s_midfielder -> "model/midfielder_scaler.joblib"
      [] position = s_striker    -> "model/striker_scaler.joblib"
      [] position = s_goalkeeper -> "model/goalkeeper_scaler.joblib"

Files ==
    {model_path(positions[i]) : i \in 1..4} \cup
    {scaler_path(positions[i]) : i \in 1..4}

\* the artifact store: the files joblib.load cannot load
Stores(n) == {S \in SUBSET Files : Cardinality(S) <= n}

\* lines 123-128
features(position) ==
    CASE position = s_defender ->
           <<"Age", "Appearances", "Distance / 90 minutes", "Interception">>
      [] position = s_midfielder ->
           <<"Appearances", "Key Passes", "Pass Attempt / 90 minutes",
             "Pass Completed / 90 minutes", "Tackle Attempt", "Tackle Won">>
      [] position = s_striker ->
           <<"Appearances", "Goals", "Interception", "Key Passes",
             "Shots on Target">>
      [] position = s_goalkeeper ->
           <<"Age", "Appearances", "Conceded", "Shutouts">>

\* lines 215-230: the record the Predict page builds from its form
FormKeys ==
    <<"Age", "Appearances", "Goals", "Interception", "Key Passes",
      "Shots on Target", "Distance / 90 minutes", "Pass Attempt / 90 minutes",
      "Pass Completed / 90 minutes", "Tackle Attempt", "Tackle Won",
      "Conceded", "Shutouts">>

FormValue(key) == CHOOSE i \in 1..Len(FormKeys) : FormKeys[i] = key

PositionInputs ==
    {s_Defender, s_Midfielder, s_STRIKER, s_Goalkeeper, s_goalkeeper, s_Wingback}

Droppable == {"Age", "Tackle Attempt", "Tackle Won"}

Record(p, missing) ==
    [k \in ({"Position"} \cup {FormKeys[i] : i \in 1..Len(FormKeys)}) \ missing |->
        IF k = "Position" THEN p ELSE FormValue(k)]

PlayerInputs ==
    {Record(p, missing) :
        p \in PositionInputs,
        missing \in {M \in SUBSET Droppable : Cardinality(M) <= MaxMissing}}

\* line 191 and lines 215-230: the Predict page offers these four positions
\* and always fills in every key
FormPositions == {s_STRIKER, s_Midfielder, s_Defender, s_Goalkeeper}
FormInputs == {Record(p, {}) : p \in FormPositions}

Event(ev, arg) == [ev |-> ev, arg |-> arg]

\* joblib.load(path): the object stored at path, or an exception
Loads(path) == path \notin store

\* lines 111-116: the loop from position number i on.  st holds the two
\* dictionaries, the log of what was done and the exception raised, if any.
RECURSIVE LoadFrom(_, _)
LoadFrom(i, st) ==
    IF i > Len(positions) THEN st
    ELSE
      LET position == positions[i]
          m == model_path(position)
          s == scaler_path(position)
      IN IF ~Loads(m)
         THEN [st EXCEPT !.log = Append(@, Event("load", m)), !.raised = <<m>>]
         ELSE IF ~Loads(s)
         THEN [st EXCEPT !.log = @ \o <<Event("load", m), Event("load", s)>>,
                         !.models = (position :> m) @@ @,
                         !.raised = <<s>>]
         ELSE LoadFrom(i + 1,
                [st EXCEPT !.log = @ \o <<Event("load", m), Event("load", s)>>,
                           !.models = (position :> m) @@ @,
                           !.scalers = (position :> s) @@ @])

\* lines 108-116
LoadAllCached(player_data) ==
    IF call.op = "predict_player_performance" /\ call.outcome.kind # "raise"
    THEN [models |-> call.models, scalers |-> call.scalers,
          log |-> <<>>, raised |-> <<>>]
    ELSE LoadFrom(1, [models |-> <<>>, scalers |-> <<>>, log |-> <<>>,
                      raised |-> <<>>])

LoadAll(player_data) ==
    LoadFrom(1, [models |-> <<>>, scalers |-> <<>>, log |-> <<>>, raised |-> <<>>])

\* line 120: position not in positions
Known(position) == \E i \in 1..Len(positions) : positions[i] = position

\* line 130: the list comprehension from feature number k on
RECURSIVE ReadFrom(_, _, _, _)
ReadFrom(player_data, names, k, st) ==
    IF k > Len(names) THEN st
    ELSE IF names[k] \notin DOMAIN player_data
    THEN [st EXCEPT !.log = Append(@, Event("read", names[k])),
                    !.raised = <<names[k]>>]
    ELSE ReadFrom(player_data, names, k + 1,
            [st EXCEPT !.log = Append(@, Event("read", names[k])),
                       !.X = Append(@, player_data[names[k]])])

\* line 131: scalers[position]
ScalerOfLast(scalers, position) == scalers[positions[Len(positions)]]

ScalerOf(scalers, position) == scalers[position]

\* line 133: models[position]
ModelOf(models, position) == models[position]

\* The whole call: what it did, in order, and how it ended.
PredictPerformance(player_data) ==
    LET loaded == LoadAll(player_data) IN
    IF loaded.raised # <<>>
    THEN [op |-> "predict_player_performance", player_data |-> player_data,
          models |-> loaded.models, scalers |-> loaded.scalers,
          log |-> loaded.log,
          outcome |-> [kind |-> "raise", exc |-> "LoadError",
                       arg |-> loaded.raised[1]]]
    ELSE
      LET position == lower(player_data["Position"])
          log1 == Append(loaded.log, Event("read", "Position"))
      IN IF ~Known(position)
         THEN [op |-> "predict_player_performance", player_data |-> player_data,
               models |-> loaded.models, scalers |-> loaded.scalers,
               log |-> log1,
               outcome |-> [kind |-> "return", text |-> "Invalid position"]]
         ELSE
           LET rd == ReadFrom(player_data, features(position), 1,
                              [log |-> log1, X |-> <<>>, raised |-> <<>>])
           IN IF rd.raised # <<>>
              THEN [op |-> "predict_player_performance",
                    player_data |-> player_data,
                    models |-> loaded.models, scalers |-> loaded.scalers,
                    log |-> rd.log,
                    outcome |-> [kind |-> "raise", exc |-> "KeyError",
                                 arg |-> rd.raised[1]]]
              ELSE
                LET scaler == ScalerOf(loaded.scalers, position)
                    model == ModelOf(loaded.models, position)
                    X_scaled == [scaler |-> scaler, X |-> <<rd.X>>]
                    prediction == <<[model |-> model, X_scaled |-> X_scaled]>>
                IN [op |-> "predict_player_performance",
                    player_data |-> player_data,
                    models |-> loaded.models, scalers |-> loaded.scalers,
                    X |-> rd.X,
                    log |-> rd.log \o <<Event("transform", scaler),
                                        Event("predict", model)>>,
                    outcome |-> [kind |-> "label", label |-> prediction[1]]]

\* how many times the log attempts to load path
LoadCount(log, path) ==
    Cardinality({i \in 1..Len(log) : log[i] = Event("load", path)})

\* ------------------------------------------------------------- the actions
\* one call of player_radar_chart(df, player_name, features)
player_radar_chart ==
    \E player_name \in Names, feats \in FeatureLists :
        /\ call' = RadarChart(df, player_name, feats)
        /\ UNCHANGED <<df, store, seen, ncalls, nloads>>

\* one call of predict_player_performance(player_data); the loads of the
\* first MaxCalls calls are counted
predict_player_performance ==
    /\ ncalls < MaxCalls
    /\ \E player_data \in PlayerInputs :
        /\ call' = PredictPerformance(player_data)
        /\ ncalls' = ncalls + 1
        /\ nloads' = [f \in Files |-> nloads[f] + LoadCount(call'.log, f)]
        /\ UNCHANGED <<df, store, seen>>

NoLoads == [f \in Files |-> 0]

InitCompare ==
    /\ df \in Datasets(MaxRows)
    /\ store = {}
    /\ call = Idle
    /\ seen = Unseen
    /\ ncalls = 0
    /\ nloads = NoLoads

NextCompare == player_radar_chart

SpecCompare == InitCompare /\ [][NextCompare]_vars

InitPredict ==
    /\ df = <<>>
    /\ store \in Stores(MaxBroken)
    /\ call = Idle
    /\ seen = Unseen
    /\ ncalls = 0
    /\ nloads = NoLoads

NextPredict == predict_player_performance

SpecPredict == InitPredict /\ [][NextPredict]_vars

\* A session of the dashboard: both pages are used in any order against the
\* dataset loaded at startup.  seen remembers one earlier comparison, its
\* arguments and what it returned.
SessionCompare ==
    \E player_name \in Names, feats \in FeatureLists :
        /\ call' = RadarChart(df, player_name, feats)
        /\ \/ seen' = seen
           \/ /\ seen = Unseen
              /\ seen' = [kind |-> "seen", player_name |-> player_name,
                          features |-> feats, return |-> call'.return]
        /\ UNCHANGED <<df, store, ncalls, nloads>>

SessionPredict ==
    \E player_data \in FormInputs :
        /\ call' = PredictPerformance(player_data)
        /\ UNCHANGED <<df, store, seen, ncalls, nloads>>

Init ==
    /\ df \in Datasets(SessionRows)
    /\ store = {}
    /\ call = Idle
    /\ seen = Unseen
    /\ ncalls = 0
    /\ nloads = NoLoads

Next == SessionCompare \/ SessionPredict

Spec == Init /\ [][Next]_vars

\* =====================================================================
\* Properties
\* =====================================================================
IsRadar == call.op = "player_radar_chart"
IsPredict == call.op = "predict_player_performance"
Found == IsRadar /\ \E i \in 1..Len(df) : df[i]["Name"] = call.player_name
NotFound == IsRadar /\ \A i \in 1..Len(df) : df[i]["Name"] # call.player_name

\* The comparison described from the dataset alone: the subject is the first
\* row, in dataset order, with the requested name; its peers are the rows
\* whose Position is the same string.
SubjectRow ==
    CHOOSE i \in 1..Len(df) :
        /\ df[i]["Name"] = call.player_name
        /\ \A j \in 1..(i - 1) : df[j]["Name"] # call.player_name
PeerRows == {i \in 1..Len(df) : df[i]["Position"] = df[SubjectRow]["Position"]}
PeerCount == Cardinality(PeerRows)
PeerMin(f) == CHOOSE v \in {df[i][f] : i \in PeerRows} :
                 \A i \in PeerRows : v <= df[i][f]
PeerMax(f) == CHOOSE v \in {df[i][f] : i \in PeerRows} :
                 \A i \in PeerRows : v >= df[i][f]
RECURSIVE SumOver(_, _)
SumOver(S, f) ==
    IF S = {} THEN 0
    ELSE LET i == CHOOSE i \in S : TRUE IN df[i][f] + SumOver(S \ {i}, f)
PeerSum(f) == SumOver(PeerRows, f)

\* C3: a comparison for a name no row carries returns None after reporting
\* the name, having assigned nothing but the empty lookup result: no peer
\* group, mean, minimum, maximum or normalised value is computed.
C3_NotFoundStops ==
    NotFound =>
        /\ call.return = None
        /\ call.st_error = <<call.player_name>>
        /\ call.assigned = {"player_data"}
        /\ call.player_data = <<>>

C3_Witness ==
    /\ NotFound
    /\ Len(df) > 1
    /\ call.return = None

\* C4 (as claimed): for a found player and a requested feature whose maximum
\* equals its minimum over the peer group, both normalised values are a
\* defined number, never NaN.
C4_DegenerateHasFallback ==
    Found =>
        \A k \in 1..Len(call.features) :
            PeerMax(call.features[k]) = PeerMin(call.features[k]) =>
                /\ IsFinite(call.return.fig.avg[k])
                /\ IsFinite(call.return.fig.player[k])

\* C5: for a found player and a requested feature with max > min over the
\* peer group, both normalised values lie in [0, 1]; the subject's value and
\* the peer mean lie between min and max; the peer group holds the subject's
\* row, the one its values are read from.
C5_NormalisedInUnitInterval ==
    Found =>
        /\ call.player_data[1] = df[SubjectRow]
        /\ \E j \in 1..Len(call.all_players) :
               call.all_players[j] = call.player_data[1]
        /\ \A k \in 1..Len(call.features) :
             LET f == call.features[k]
                 a == call.return.fig.avg[k]
                 p == call.return.fig.player[k]
             IN PeerMax(f) > PeerMin(f) =>
                  /\ a.den > 0 /\ 0 <= a.num /\ a.num <= a.den
                  /\ p.den > 0 /\ 0 <= p.num /\ p.num <= p.den
                  /\ PeerMin(f) <= df[SubjectRow][f]
                  /\ df[SubjectRow][f] <= PeerMax(f)
                  /\ PeerMin(f) * PeerCount <= PeerSum(f)
                  /\ PeerSum(f) <= PeerMax(f) * PeerCount

\* several rows carry the requested name, under different positions, and the
\* peer group has max > min for the first feature
C5_Witness ==
    /\ Found
    /\ Len(call.player_data) > 1
    /\ call.player_data[2]["Position"] # call.player_data[1]["Position"]
    /\ PeerCount > 1
    /\ PeerMax(call.features[1]) > PeerMin(call.features[1])
    /\ call.return.fig.player[1] = [num |-> 0, den |-> 1]
    /\ call.return.fig.avg[1] = [num |-> 1, den |-> 2]

\* C6: the outputs equal the reference computation.  The subject is the first
\* row with the name, the peer group is the rows with exactly the subject's
\* Position string, the i-th outputs are (mean - min)/(max - min) and
\* (value - min)/(max - min) of the i-th requested feature over that group;
\* two defenders with 10 and 20 give 0 and 1 for the subjects and 1/2 for
\* the peer average.
C6_Example ==
    /\ df = <<Row("A", s_Defender, <<10, 7>>), Row("B", s_Defender, <<20, 3>>)>>
    /\ IsRadar
    /\ call.features[1] = "Interception"

C6_MatchesReference ==
    /\ Found =>
        /\ call.return.kind = "tuple"
        /\ call.return.player_data[1] = df[SubjectRow]
        /\ Len(call.all_players) = PeerCount
        /\ \A j \in 1..Len(call.all_players) :
               call.all_players[j]["Position"] = df[SubjectRow]["Position"]
        /\ call.return.fig.theta = call.features
        /\ Len(call.return.fig.avg) = Len(call.features)
        /\ Len(call.return.fig.player) = Len(call.features)
        /\ \A k \in 1..Len(call.features) :
             LET f == call.features[k]
                 a == call.return.fig.avg[k]
                 p == call.return.fig.player[k]
                 w == PeerMax(f) - PeerMin(f)
             IN w > 0 =>
                  /\ a.den > 0 /\ p.den > 0
                  /\ a.num * (PeerCount * w) =
                        (PeerSum(f) - PeerCount * PeerMin(f)) * a.den
                  /\ p.num * w = (df[SubjectRow][f] - PeerMin(f)) * p.den
    /\ C6_Example =>
        /\ call.return.fig.avg[1] = [num |-> 1, den |-> 2]
        /\ call.player_name = "A" => call.return.fig.player[1] = [num |-> 0, den |-> 1]
        /\ call.player_name = "B" => call.return.fig.player[1] = [num |-> 1, den |-> 1]

\* a peer group that leaves out a row whose Position differs only in case
C6_Witness ==
    /\ Found
    /\ Len(df) = 3
    /\ PeerCount = 2
    /\ \E i \in 1..Len(df) :
          /\ i \notin PeerRows
          /\ lower(df[i]["Position"]) = lower(df[SubjectRow]["Position"])
    /\ call.return.fig.avg[1] = [num |-> 1, den |-> 2]
    /\ call.return.fig.player[1] = [num |-> 1, den |-> 1]

\* ---------------------------------------------------------------- predict
\* The prediction described from its inputs alone.
KnownPositions == {s_defender, s_midfielder, s_striker, s_goalkeeper}
AskedPosition == lower(call.player_data["Position"])
ValidPosition == IsPredict /\ AskedPosition \in KnownPositions
UnknownPosition == IsPredict /\ AskedPosition \notin KnownPositions
MissingOf(names) ==
    {k \in 1..Len(names) : names[k] \notin DOMAIN call.player_data}
LacksFeature == ValidPosition /\ MissingOf(features(AskedPosition)) # {}
FirstMissing ==
    LET names == features(AskedPosition)
    IN names[CHOOSE k \in MissingOf(names) : \A j \in MissingOf(names) : k <= j]

LoadEvents == SelectSeq(call.log, LAMBDA e : e.ev = "load")
\* the attributes read from the record after its Position
FeatureReads ==
    LET r == SelectSeq(call.log, LAMBDA e : e.ev = "read" /\ e.arg # "Position")
    IN [k \in 1..Len(r) |-> r[k].arg]
LoadOrder ==
    <<"model/defender_model.joblib", "model/defender_scaler.joblib",
      "model/midfielder_model.joblib", "model/midfielder_scaler.joblib",
      "model/striker_model.joblib", "model/striker_scaler.joblib",
      "model/goalkeeper_model.joblib", "model/goalkeeper_scaler.joblib">>
ModelFile(p) == CHOOSE f \in Files : \E i \in {1, 3, 5, 7} :
                    LoadOrder[i] = f /\ positions[(i + 1) \div 2] = p
ScalerFile(p) == CHOOSE f \in Files : \E i \in {2, 4, 6, 8} :
                    LoadOrder[i] = f /\ positions[i \div 2] = p
LoadFailed == IsPredict /\ call.outcome.kind = "raise" /\ call.outcome.exc = "LoadError"

\* C1 (as claimed): a call whose lower-cased Position is none of the four
\* ends with the invalid-position outcome and attempts no artifact load.
C1_UnknownPositionLoadsNothing ==
    UnknownPosition =>
        /\ call.outcome.kind = "return"
        /\ call.outcome.text = "Invalid position"
        /\ LoadEvents = <<>>

\* C2 (as claimed): a call with a valid position and a record lacking an
\* attribute of the position's feature list returns an explicit
\* missing-feature outcome naming the first missing attribute, instead of
\* ending in an exception.
C2_MissingFeatureReturned ==
    LacksFeature =>
        /\ call.outcome.kind = "return"
        /\ call.outcome.text = "MissingFeature"
        /\ call.outcome.arg = FirstMissing

\* C7: for each of the four positions in any letter case, the attributes read
\* from the record are those of the position's feature list and no other, in
\* that order (goalkeeper: Age, Appearances, Conceded, Shutouts); the vector
\* goes through that position's scaler and then that position's classifier,
\* and the first predicted label is returned.
C7_RoutesByPosition ==
    IsPredict =>
        /\ UnknownPosition => FeatureReads = <<>>
        /\ ValidPosition =>
             /\ Len(FeatureReads) <= Len(features(AskedPosition))
             /\ \A k \in 1..Len(FeatureReads) :
                    FeatureReads[k] = features(AskedPosition)[k]
        /\ ValidPosition /\ ~LacksFeature /\ ~LoadFailed =>
             call.outcome.kind = "label"
        /\ call.outcome.kind = "label" =>
             /\ ValidPosition
             /\ FeatureReads = features(AskedPosition)
             /\ AskedPosition = s_goalkeeper =>
                    FeatureReads = <<"Age", "Appearances", "Conceded", "Shutouts">>
             /\ call.X = [k \in 1..Len(FeatureReads) |->
                            call.player_data[FeatureReads[k]]]
             /\ call.outcome.label =
                    [model |-> ModelFile(AskedPosition),
                     X_scaled |-> [scaler |-> ScalerFile(AskedPosition),
                                   X |-> <<call.X>>]]
             /\ SelectSeq(call.log, LAMBDA e : e.ev \in {"transform", "predict"})
                    = <<Event("transform", ScalerFile(AskedPosition)),
                        Event("predict", ModelFile(AskedPosition))>>

\* "Goalkeeper", capitalised, with a complete record
C7_Witness ==
    /\ IsPredict
    /\ call.player_data["Position"] = s_Goalkeeper
    /\ call.outcome.kind = "label"
    /\ FeatureReads = <<"Age", "Appearances", "Conceded", "Shutouts">>
    /\ call.outcome.label.model = "model/goalkeeper_model.joblib"

\* C8 (as claimed): a load failure fails only the calls for the position
\* whose artifact failed, and is told apart from the input errors: a call
\* for a valid position with a complete record whose own two artifacts load
\* returns a label, and a call with an unknown position or a missing
\* attribute does not end as a load failure.
C8_LoadFailureIsolated ==
    IsPredict =>
        /\ ( /\ ValidPosition
             /\ ~LacksFeature
             /\ ModelFile(AskedPosition) \notin store
             /\ ScalerFile(AskedPosition) \notin store )
           => call.outcome.kind = "label"
        /\ (UnknownPosition \/ LacksFeature) => ~LoadFailed

\* C10 (as claimed): every call attempts to load all eight artifacts, in the
\* order defender, midfielder, striker, goalkeeper, before reading Position,
\* and after N calls each artifact has been loaded N times.
C10_AlwaysLoadsAllEight ==
    /\ IsPredict =>
         /\ [k \in 1..Len(LoadEvents) |-> LoadEvents[k].arg] = LoadOrder
         /\ \A k \in 1..Len(LoadOrder) : call.log[k].ev = "load"
    /\ \A f \in Files : nloads[f] = ncalls

\* C10 (amended): every call attempts the loads in the order defender,
\* midfielder, striker, goalkeeper, model before scaler, and stops at the
\* first load that fails, ending there without reading Position; when none
\* fails all eight are attempted before Position is read.  Nothing loaded is
\* kept between calls: after N calls every artifact up to and including the
\* first failing one has been loaded N times, the later ones never, whatever
\* positions were requested.
FirstBroken ==
    IF \E k \in 1..Len(LoadOrder) : LoadOrder[k] \in store
    THEN CHOOSE k \in 1..Len(LoadOrder) :
            /\ LoadOrder[k] \in store
            /\ \A j \in 1..(k - 1) : LoadOrder[j] \notin store
    ELSE Len(LoadOrder)

C10_LoadsUntilFirstFailure ==
    /\ IsPredict =>
         /\ [k \in 1..Len(LoadEvents) |-> LoadEvents[k].arg]
                = SubSeq(LoadOrder, 1, FirstBroken)
         /\ \A k \in 1..FirstBroken : call.log[k].ev = "load"
         /\ store = {} => call.log[Len(LoadOrder) + 1] = Event("read", "Position")
         /\ store # {} =>
              /\ Len(call.log) = FirstBroken
              /\ call.outcome = [kind |-> "raise", exc |-> "LoadError",
                                 arg |-> LoadOrder[FirstBroken]]
    /\ \A k \in 1..Len(LoadOrder) :
         nloads[LoadOrder[k]] = IF k <= FirstBroken THEN ncalls ELSE 0

\* two calls, both for an unknown position, with every artifact loadable
C10_Witness ==
    /\ IsPredict
    /\ store = {}
    /\ ncalls = 2
    /\ UnknownPosition
    /\ \A f \in Files : nloads[f] = 2

====
